---- MODULE Spec2Model ----
(***************************************************************************)
(* Draft session of draft_helper_step2_vorp.py: the command loop of main() *)
(* with its drafted list (the undo history), drafted_set and my_counts,    *)
(* and the pure helpers the loop calls.                                    *)
(***************************************************************************)
EXTENDS Integers, Sequences, FiniteSets, TLC

\* ------------------------------------------------------------------ bounds

\* Largest number of rows of a players table the session is started with.
MaxPool == 3

\* ------------------------------------------------------- program constants

BASE_POSITIONS == <<"QB", "RB", "WR", "TE", "K", "DST">>

\* flex_accept = {'RB','WR','TE'}
flex_accept == {"RB", "WR", "TE"}

\* The keys my_counts is read at: the base positions plus the literal 'FLEX'.
CountKeys == {BASE_POSITIONS[i] : i \in DOMAIN BASE_POSITIONS} \cup {"FLEX"}

\* The messages the loop prints.
MsgNameNotFound == "Name not found"
MsgAlreadyDrafted == "Already drafted"
MsgNothingToUndo == "Nothing to undo."
MsgUndidDrafted == "Undid drafted"
MsgUndoMine == "Undo for 'mine' not yet implemented."
MsgBest == "Best next picks (VORP-adjusted):"
MsgDraftComplete == "Draft complete. No players left."
MsgStatus == "Your roster used:"
MsgSaved == "Saved remaining pool with scores to"
MsgUnknownPosition == "Unknown position"
MsgNoPlayersAt == "No players left at"
MsgFilterTable == "printable_table(posdf, topn=10)"

DEF_ALIASES == {"DEF", "DST", "D/ST", "D-ST", "D\\ST", "TEAM DEFENSE", "TEAMDEF",
                "TEAM D", "DEFENSE"}

\* ------------------------------------------------------------------ inputs

Row(p, pos, pts) == [player |-> p, position |-> pos, proj_points |-> pts]

\* Players tables as load_data returns them: rows sorted by proj_points
\* descending, one row per (player, position).  The first is the table of
\* _test_state.py with one more RB; the second has a name on two positions
\* and two rows with equal points.
Catalogues ==
  << << Row("D", "WR", 25), Row("B", "RB", 20), Row("C", "WR", 15),
        Row("A", "RB", 10), Row("E", "RB", 5) >>,
     << Row("B", "RB", 20), Row("B", "WR", 18), Row("F", "QB", 18),
        Row("G", "RB", 12), Row("H", "TE", 9) >> >>

Min(a, b) == IF a < b THEN a ELSE b
Max(a, b) == IF a > b THEN a ELSE b

Pools ==
  { SubSeq(Catalogues[c], 1, Min(k, Len(Catalogues[c]))) :
      c \in DOMAIN Catalogues, k \in 0..MaxPool }

\* A dict literal: keys ks (a sequence) with values vs.
Dict(ks, vs) == [k \in {ks[i] : i \in DOMAIN ks} |->
                   vs[CHOOSE i \in DOMAIN ks : ks[i] = k]]

EmptyDict == [k \in {} |-> 0]

\* --weights default "need:1.0,bench:0.4,blocked:0.1", in tenths.
DefaultWeights == Dict(<<"need", "bench", "blocked">>, <<10, 4, 1>>)

\* Command lines --teams/--roster/--bench as parse_kv_list returns them, and
\* --weights.  parse_kv_list accepts any integer, negative ones included.
Configs ==
  { [teams |-> 1, roster |-> Dict(<<"RB", "WR">>, <<1, 1>>), bench |-> EmptyDict,
                  weights |-> DefaultWeights],
    [teams |-> 1, roster |-> Dict(<<"RB", "WR", "FLEX">>, <<1, 0, 1>>),
                  bench |-> Dict(<<"QB", "RB", "WR">>, <<1, 0, 1>>),
                  weights |-> DefaultWeights],
    [teams |-> 2, roster |-> Dict(<<"QB", "RB", "WR", "TE", "FLEX", "K", "DST">>,
                                  <<1, 2, 2, 1, 1, 1, 1>>),
                  bench |-> Dict(<<"QB", "RB", "WR", "TE", "K", "DST">>,
                                 <<0, 0, 0, 0, 0, 0>>),
                  weights |-> DefaultWeights],
    [teams |-> 1, roster |-> Dict(<<"RB", "WR", "FLEX">>, <<-1, 1, -1>>),
                  bench |-> Dict(<<"RB", "WR">>, <<-1, 1>>),
                  weights |-> Dict(<<"need", "bench", "blocked">>, <<10, 5, 0>>)] }

\* ------------------------------------------------------------------- state

VARIABLES
  df,            \* the players table (load_data)
  teams,         \* args.teams
  roster_slots,  \* parse_kv_list(args.roster)
  bench_slots,   \* parse_kv_list(args.bench)
  weights,       \* need, bench and blocked weights, in tenths
  drafted,       \* list of (act, name, pos): the undo history
  drafted_set,   \* names removed from the pool
  my_counts,     \* defaultdict(int): the keys it holds and their counts
  line,          \* the command read last
  out,           \* the message printed last
  running,       \* the command loop is reading commands
  prev           \* <<drafted, drafted_set, my_counts>> before the last command

vars == << df, teams, roster_slots, bench_slots, weights, drafted, drafted_set,
           my_counts, line, out, running, prev >>

config == << df, teams, roster_slots, bench_slots, weights >>

session == << drafted, drafted_set, my_counts >>

\* ----------------------------------------------------------------- helpers

\* d.get(k, 0)
Get(d, k) == IF k \in DOMAIN d THEN d[k] ELSE 0

\* d[k] = v
Put(d, k, v) == [x \in DOMAIN d \cup {k} |-> IF x = k THEN v ELSE d[x]]

\* all_names = df['player'].tolist()
all_names(table) == {table[i].player : i \in DOMAIN table}

\* df[df['player']==name].iloc[0]['position']
position_of(table, name) ==
  table[CHOOSE i \in DOMAIN table :
          /\ table[i].player = name
          /\ \A j \in DOMAIN table : table[j].player = name => i <= j].position

\* df_all[~df_all['player'].isin(drafted)]
RECURSIVE available(_, _)
available(table, gone) ==
  IF table = << >> THEN << >>
  ELSE IF Head(table).player \in gone THEN available(Tail(table), gone)
       ELSE << Head(table) >> \o available(Tail(table), gone)

Front(s) == SubSeq(s, 1, Len(s) - 1)
Last(s) == s[Len(s)]

\* What recalc_and_show prints first: its return value is whether players are left.
recalc_and_show(table, gone) ==
  IF available(table, gone) = << >> THEN MsgDraftComplete ELSE MsgBest

\* ---------------------------------------------------------- need classifier

\* Variant of compute_my_need_states: a free FLEX slot counts for every
\* position, not only for RB, WR and TE.
need_states_flex_any(rs, bs, mc) ==
  LET flex_left == Max(Get(rs, "FLEX") - Get(mc, "FLEX"), 0)
  IN [pos \in {BASE_POSITIONS[i] : i \in DOMAIN BASE_POSITIONS} |->
        IF Get(mc, pos) < Get(rs, pos) THEN "need"
        ELSE IF flex_left > 0 THEN "need"
        ELSE IF (Get(mc, pos) - Get(rs, pos)) < Get(bs, pos) THEN "bench"
        ELSE "blocked"]

\* Variant of compute_my_need_states: the bench test compares the wrong way.
need_states_bench_reversed(rs, bs, mc) ==
  LET flex_left == Max(Get(rs, "FLEX") - Get(mc, "FLEX"), 0)
  IN [pos \in {BASE_POSITIONS[i] : i \in DOMAIN BASE_POSITIONS} |->
        IF Get(mc, pos) < Get(rs, pos) THEN "need"
        ELSE IF pos \in flex_accept /\ flex_left > 0 THEN "need"
        ELSE IF (Get(mc, pos) - Get(rs, pos)) > Get(bs, pos) THEN "bench"
        ELSE "blocked"]

\* compute_my_need_states(roster_slots, bench_slots, my_counts)
compute_my_need_states(rs, bs, mc) ==
  LET flex_total == Get(rs, "FLEX")
      flex_used == Get(mc, "FLEX")
      flex_left == Max(flex_total - flex_used, 0)
  IN [pos \in {BASE_POSITIONS[i] : i \in DOMAIN BASE_POSITIONS} |->
        LET starters == Get(rs, pos)
            bench == Get(bs, pos)
            used == Get(mc, pos)
        IN IF used < starters THEN "need"
           ELSE IF pos \in flex_accept /\ flex_left > 0 THEN "need"
           ELSE IF (used - starters) < bench THEN "bench"
           ELSE "blocked"]

\* --------------------------------------------------------------- mine branch

\* Variant of increment_my_counts: the FLEX slot is taken before the
\* position's own starter slot.
increment_flex_first(mc, pos, rs) ==
  LET read == Put(mc, pos, Get(mc, pos))
  IN IF pos \in flex_accept /\ Get(read, "FLEX") < Get(rs, "FLEX")
       THEN Put(read, "FLEX", Get(read, "FLEX") + 1)
     ELSE Put(read, pos, read[pos] + 1)

\* Variant of increment_my_counts: the FLEX branch is missing, a pick beyond
\* the starters goes to the position's own count.
increment_without_flex(mc, pos, rs) ==
  LET read == Put(mc, pos, Get(mc, pos))
  IN Put(read, pos, read[pos] + 1)

\* The roster-count update of the mine branch.  my_counts[pos_upper] in the
\* first test reads a defaultdict, which stores the key it is read at.
increment_my_counts(mc, pos, rs) ==
  LET read == Put(mc, pos, Get(mc, pos))
      starters == Get(rs, pos)
  IN IF read[pos] < starters THEN Put(read, pos, read[pos] + 1)
     ELSE IF pos \in flex_accept /\ Get(read, "FLEX") < Get(rs, "FLEX")
          THEN Put(read, "FLEX", Get(read, "FLEX") + 1)
     ELSE Put(read, pos, read[pos] + 1)

\* ------------------------------------------------------------------ floats

\* The float values the scores take: a finite number, +inf or -inf, nan.
\* Points are whole numbers here; weights and adj_score are in tenths.
Fin(v) == [kind |-> "fin", val |-> v]
PosInf == [kind |-> "inf", val |-> 1]
NegInf == [kind |-> "inf", val |-> -1]
NaN == [kind |-> "nan", val |-> 0]

\* a < b on floats (False when either is nan)
FLess(a, b) ==
  /\ a.kind # "nan" /\ b.kind # "nan"
  /\ IF a.kind = "fin" /\ b.kind = "fin" THEN a.val < b.val
     ELSE IF a.kind = "fin" THEN b = PosInf
     ELSE IF b.kind = "fin" THEN a = NegInf
     ELSE a = NegInf /\ b = PosInf

\* a <= b on floats (False when either is nan)
FLeq(a, b) == a.kind # "nan" /\ b.kind # "nan" /\ (a = b \/ FLess(a, b))

\* r.proj_points - repl, for a finite proj_points
FSub(pts, repl) ==
  IF repl.kind = "fin" THEN Fin(pts - repl.val)
  ELSE IF repl = PosInf THEN NegInf
  ELSE IF repl = NegInf THEN PosInf
  ELSE NaN

\* vorp * w, for a finite weight w (in tenths)
FMul(vorp, w) ==
  IF vorp.kind = "fin" THEN Fin(vorp.val * w)
  ELSE IF vorp.kind = "nan" \/ w = 0 THEN NaN
  ELSE IF (vorp = PosInf) = (w > 0) THEN PosInf
  ELSE NegInf

\* ------------------------------------------------------- replacement level

\* df[df['position'] == pos]
rows_at(table, pos) == SelectSeq(table, LAMBDA r : r.position = pos)

\* sort_values('proj_points', ascending=False): rows with equal points keep
\* their order (tables of this size are sorted by insertion).
RECURSIVE sort_by_points(_)
sort_by_points(table) ==
  IF table = << >> THEN << >>
  ELSE LET rest == sort_by_points(Front(table))
           r == Last(table)
           ahead == {i \in DOMAIN rest : rest[i].proj_points >= r.proj_points}
           k == Cardinality(ahead)
       IN SubSeq(rest, 1, k) \o << r >> \o SubSeq(rest, k + 1, Len(rest))

\* Variant of sort_by_points: ascending=False is missing, the worst row is first.
RECURSIVE sort_by_points_ascending(_)
sort_by_points_ascending(table) ==
  IF table = << >> THEN << >>
  ELSE LET rest == sort_by_points_ascending(Front(table))
           r == Last(table)
           ahead == {i \in DOMAIN rest : rest[i].proj_points <= r.proj_points}
           k == Cardinality(ahead)
       IN SubSeq(rest, 1, k) \o << r >> \o SubSeq(rest, k + 1, Len(rest))

\* Variant of compute_replacement_points: the position's rows are sorted
\* ascending.
replacement_points_ascending(avail, t, starters_by_pos) ==
  [pos \in {BASE_POSITIONS[i] : i \in DOMAIN BASE_POSITIONS} |->
     LET N == t * Get(starters_by_pos, pos)
         pool == sort_by_points_ascending(rows_at(avail, pos))
     IN IF N <= 0 THEN PosInf
        ELSE IF pool = << >> THEN PosInf
        ELSE Fin(pool[Min(Max(N - 1, 0), Len(pool) - 1) + 1].proj_points)]

\* Variant of compute_replacement_points: the index is N, one past the Nth
\* remaining row.
replacement_points_index_N(avail, t, starters_by_pos) ==
  [pos \in {BASE_POSITIONS[i] : i \in DOMAIN BASE_POSITIONS} |->
     LET N == t * Get(starters_by_pos, pos)
         pool == sort_by_points(rows_at(avail, pos))
     IN IF N <= 0 THEN PosInf
        ELSE IF pool = << >> THEN PosInf
        ELSE Fin(pool[Min(Max(N, 0), Len(pool) - 1) + 1].proj_points)]

\* Variant of compute_replacement_points: a position nobody starts gets the
\* replacement 0 instead of +inf.
replacement_points_zero_sentinel(avail, t, starters_by_pos) ==
  [pos \in {BASE_POSITIONS[i] : i \in DOMAIN BASE_POSITIONS} |->
     LET N == t * Get(starters_by_pos, pos)
         pool == sort_by_points(rows_at(avail, pos))
     IN IF N <= 0 THEN Fin(0)
        ELSE IF pool = << >> THEN PosInf
        ELSE Fin(pool[Min(Max(N - 1, 0), Len(pool) - 1) + 1].proj_points)]

\* compute_replacement_points(available_df, teams, starters_by_pos); the
\* index idx is zero-based, sequences here start at 1.
compute_replacement_points(avail, t, starters_by_pos) ==
  [pos \in {BASE_POSITIONS[i] : i \in DOMAIN BASE_POSITIONS} |->
     LET N == t * Get(starters_by_pos, pos)
         pool == sort_by_points(rows_at(avail, pos))
     IN IF N <= 0 THEN PosInf
        ELSE IF pool = << >> THEN PosInf
        ELSE LET idx == Min(Max(N - 1, 0), Len(pool) - 1)
             IN Fin(pool[idx + 1].proj_points)]

\* --------------------------------------------------------- candidate scorer

\* sort_values descending on one float key puts a before b: a is greater,
\* or b is nan and a is not (nan goes last).
KeyBefore(a, b) == (a.kind # "nan" /\ b.kind = "nan") \/ FLess(b, a)

\* sort_values(['adj_score','vorp','proj_points'], ascending=[False]*3)
\* puts row a before row b whatever their order was.
RowBefore(a, b) ==
  \/ KeyBefore(a.adj_score, b.adj_score)
  \/ /\ a.adj_score = b.adj_score
     /\ \/ KeyBefore(a.vorp, b.vorp)
        \/ a.vorp = b.vorp /\ a.proj_points > b.proj_points

\* The sort of candidate_scores; rows equal on the three keys keep their order.
RECURSIVE sort_scored(_)
sort_scored(rows) ==
  IF rows = << >> THEN << >>
  ELSE LET rest == sort_scored(Front(rows))
           r == Last(rows)
           ahead == {i \in DOMAIN rest : ~RowBefore(r, rest[i])}
           k == Cardinality(ahead)
       IN SubSeq(rest, 1, k) \o << r >> \o SubSeq(rest, k + 1, Len(rest))

\* candidate_scores(available_df, replacement_points, my_needs, weights)
candidate_scores(avail, replacement_points, my_needs, w) ==
  sort_scored(
    [i \in DOMAIN avail |->
       LET r == avail[i]
           pos == r.position
           repl == IF pos \in DOMAIN replacement_points
                   THEN replacement_points[pos] ELSE PosInf
           vorp == FSub(r.proj_points, repl)
           state == IF pos \in DOMAIN my_needs THEN my_needs[pos] ELSE "blocked"
           wt == IF state \in DOMAIN w THEN w[state] ELSE 1
           adj == FMul(vorp, wt)
       IN [player |-> r.player, position |-> pos, proj_points |-> r.proj_points,
           vorp |-> vorp, adj_score |-> adj, need_state |-> state]])

\* The table recalc_and_show scores: the available rows sorted by points.
scored_best(table, gone, t, rs, bs, mc, w) ==
  LET avail == sort_by_points(available(table, gone))
  IN candidate_scores(avail, compute_replacement_points(avail, t, rs),
                      compute_my_need_states(rs, bs, mc), w)

\* The table the save and filter branches score: the available rows as df
\* holds them.
scored_avail(table, gone, t, rs, bs, mc, w) ==
  LET avail == available(table, gone)
  IN candidate_scores(avail, compute_replacement_points(avail, t, rs),
                      compute_my_need_states(rs, bs, mc), w)

\* ------------------------------------------------------------------ actions

\* The names typed at the prompt: those of the table and one that is not.
InputNames == all_names(df) \cup {"Nobody"}

Init ==
  /\ \E pool \in Pools : df = pool
  /\ \E c \in Configs :
       /\ teams = c.teams
       /\ roster_slots = c.roster
       /\ bench_slots = c.bench
       /\ weights = c.weights
  /\ drafted = << >>
  /\ drafted_set = {}
  /\ my_counts = EmptyDict
  /\ line = [cmd |-> "", arg |-> ""]
  /\ out = recalc_and_show(df, {})
  /\ running = (recalc_and_show(df, {}) = MsgBest)
  /\ prev = << << >>, {}, EmptyDict >>

\* Variant of cmd_mine: the test for a name already in drafted_set is missing.
cmd_mine_no_drafted_check(name) ==
  /\ running
  /\ line' = [cmd |-> "mine", arg |-> name]
  /\ prev' = session
  /\ IF name \notin all_names(df)
       THEN out' = MsgNameNotFound /\ UNCHANGED session
     ELSE LET pos == position_of(df, name) IN
            /\ drafted' = Append(drafted, << "mine", name, pos >>)
            /\ drafted_set' = drafted_set \cup {name}
            /\ my_counts' = increment_my_counts(my_counts, pos, roster_slots)
            /\ out' = recalc_and_show(df, drafted_set')
  /\ UNCHANGED << config, running >>

\* "mine <name>"
cmd_mine(name) ==
  /\ running
  /\ line' = [cmd |-> "mine", arg |-> name]
  /\ prev' = session
  /\ IF name \notin all_names(df)
       THEN out' = MsgNameNotFound /\ UNCHANGED session
     ELSE IF name \in drafted_set
       THEN out' = MsgAlreadyDrafted /\ UNCHANGED session
     ELSE LET pos == position_of(df, name) IN
            /\ drafted' = Append(drafted, << "mine", name, pos >>)
            /\ drafted_set' = drafted_set \cup {name}
            /\ my_counts' = increment_my_counts(my_counts, pos, roster_slots)
            /\ out' = recalc_and_show(df, drafted_set')
  /\ UNCHANGED << config, running >>

\* Variant of cmd_drafted: the roster-count update of the mine branch is
\* carried out for a league pick too.
cmd_drafted_counts(name) ==
  /\ running
  /\ line' = [cmd |-> "drafted", arg |-> name]
  /\ prev' = session
  /\ IF name \notin all_names(df)
       THEN out' = MsgNameNotFound /\ UNCHANGED session
     ELSE IF name \in drafted_set
       THEN out' = MsgAlreadyDrafted /\ UNCHANGED session
     ELSE LET pos == position_of(df, name) IN
            /\ drafted' = Append(drafted, << "drafted", name, pos >>)
            /\ drafted_set' = drafted_set \cup {name}
            /\ my_counts' = increment_my_counts(my_counts, pos, roster_slots)
            /\ out' = recalc_and_show(df, drafted_set')
  /\ UNCHANGED << config, running >>

\* "<name>": drafted by the league
cmd_drafted(name) ==
  /\ running
  /\ line' = [cmd |-> "drafted", arg |-> name]
  /\ prev' = session
  /\ IF name \notin all_names(df)
       THEN out' = MsgNameNotFound /\ UNCHANGED session
     ELSE IF name \in drafted_set
       THEN out' = MsgAlreadyDrafted /\ UNCHANGED session
     ELSE LET pos == position_of(df, name) IN
            /\ drafted' = Append(drafted, << "drafted", name, pos >>)
            /\ drafted_set' = drafted_set \cup {name}
            /\ out' = recalc_and_show(df, drafted_set')
            /\ UNCHANGED my_counts
  /\ UNCHANGED << config, running >>

\* Variant of cmd_undo: the test for an empty history is missing, and
\* drafted.pop() on the empty list ends the program with an IndexError.
cmd_undo_no_empty_check ==
  /\ running
  /\ line' = [cmd |-> "undo", arg |-> ""]
  /\ prev' = session
  /\ IF drafted = << >>
       THEN /\ out' = "IndexError: pop from empty list"
            /\ running' = FALSE
            /\ UNCHANGED session
     ELSE LET act == Last(drafted)[1]
              name == Last(drafted)[2]
          IN /\ drafted' = Front(drafted)
             /\ IF act = "drafted"
                  THEN /\ drafted_set' = drafted_set \ {name}
                       /\ out' = MsgUndidDrafted
                  ELSE /\ drafted_set' = drafted_set
                       /\ out' = MsgUndoMine
             /\ UNCHANGED << my_counts, running >>
  /\ UNCHANGED config

\* Variant of cmd_undo: the name of an undone league pick stays in drafted_set.
cmd_undo_keeps_drafted_set ==
  /\ running
  /\ line' = [cmd |-> "undo", arg |-> ""]
  /\ prev' = session
  /\ IF drafted = << >>
       THEN out' = MsgNothingToUndo /\ UNCHANGED session
     ELSE /\ drafted' = Front(drafted)
          /\ out' = IF Last(drafted)[1] = "drafted" THEN MsgUndidDrafted
                    ELSE MsgUndoMine
          /\ UNCHANGED << drafted_set, my_counts >>
  /\ UNCHANGED << config, running >>

\* Variant of cmd_undo: the name of an undone pick of mine leaves drafted_set
\* as that of a league pick does.
cmd_undo_frees_mine ==
  /\ running
  /\ line' = [cmd |-> "undo", arg |-> ""]
  /\ prev' = session
  /\ IF drafted = << >>
       THEN out' = MsgNothingToUndo /\ UNCHANGED session
     ELSE /\ drafted' = Front(drafted)
          /\ drafted_set' = drafted_set \ {Last(drafted)[2]}
          /\ out' = IF Last(drafted)[1] = "drafted" THEN MsgUndidDrafted
                    ELSE MsgUndoMine
          /\ UNCHANGED my_counts
  /\ UNCHANGED << config, running >>

\* Variant of cmd_undo: drafted.pop(0), the oldest event is taken back.
cmd_undo_pops_first ==
  /\ running
  /\ line' = [cmd |-> "undo", arg |-> ""]
  /\ prev' = session
  /\ IF drafted = << >>
       THEN out' = MsgNothingToUndo /\ UNCHANGED session
     ELSE LET act == Head(drafted)[1]
              name == Head(drafted)[2]
          IN /\ drafted' = Tail(drafted)
             /\ IF act = "drafted"
                  THEN /\ drafted_set' = drafted_set \ {name}
                       /\ out' = MsgUndidDrafted
                  ELSE /\ drafted_set' = drafted_set
                       /\ out' = MsgUndoMine
             /\ UNCHANGED my_counts
  /\ UNCHANGED << config, running >>

\* "undo"
cmd_undo ==
  /\ running
  /\ line' = [cmd |-> "undo", arg |-> ""]
  /\ prev' = session
  /\ IF drafted = << >>
       THEN out' = MsgNothingToUndo /\ UNCHANGED session
     ELSE LET act == Last(drafted)[1]
              name == Last(drafted)[2]
          IN /\ drafted' = Front(drafted)
             /\ IF act = "drafted"
                  THEN /\ drafted_set' = drafted_set \ {name}
                       /\ out' = MsgUndidDrafted
                  ELSE /\ drafted_set' = drafted_set
                       /\ out' = MsgUndoMine
             /\ UNCHANGED my_counts
  /\ UNCHANGED << config, running >>

\* Variant of cmd_best: the loop ends when recalc_and_show returns False,
\* as the call before the loop does.
cmd_best_ends_loop ==
  /\ running
  /\ line' = [cmd |-> "best", arg |-> ""]
  /\ prev' = session
  /\ out' = recalc_and_show(df, drafted_set)
  /\ running' = (recalc_and_show(df, drafted_set) = MsgBest)
  /\ UNCHANGED << config, session >>

\* Variant of cmd_best: the row shown first is taken out of the pool.
cmd_best_takes_top ==
  /\ running
  /\ line' = [cmd |-> "best", arg |-> ""]
  /\ prev' = session
  /\ out' = recalc_and_show(df, drafted_set)
  /\ drafted_set' =
       LET rows == scored_best(df, drafted_set, teams, roster_slots,
                               bench_slots, my_counts, weights)
       IN IF rows = << >> THEN drafted_set ELSE drafted_set \cup {rows[1].player}
  /\ UNCHANGED << config, drafted, my_counts, running >>

\* "best"
cmd_best ==
  /\ running
  /\ line' = [cmd |-> "best", arg |-> ""]
  /\ prev' = session
  /\ out' = recalc_and_show(df, drafted_set)
  /\ UNCHANGED << config, session, running >>

\* Variant of cmd_status: the counts are read as my_counts[k], and the
\* defaultdict stores every base position it is read at.
cmd_status_stores_keys ==
  /\ running
  /\ line' = [cmd |-> "status", arg |-> ""]
  /\ prev' = session
  /\ out' = MsgStatus
  /\ my_counts' = [k \in DOMAIN my_counts \cup (CountKeys \ {"FLEX"}) |->
                     Get(my_counts, k)]
  /\ UNCHANGED << config, drafted, drafted_set, running >>

\* "status"
cmd_status ==
  /\ running
  /\ line' = [cmd |-> "status", arg |-> ""]
  /\ prev' = session
  /\ out' = MsgStatus
  /\ UNCHANGED << config, session, running >>

\* "save PATH": the scored table goes to the file, nothing else changes.
cmd_save(path) ==
  /\ running
  /\ line' = [cmd |-> "save", arg |-> path]
  /\ prev' = session
  /\ out' = MsgSaved
  /\ UNCHANGED << config, session, running >>

\* str.upper() on the words typed after "filter".
upper(word) == IF word = "te" THEN "TE" ELSE word

\* The position the filter branch looks up: upper-cased, a defence alias
\* taken as DST.
filter_position(word) ==
  IF upper(word) \in DEF_ALIASES THEN "DST" ELSE upper(word)

\* Variant of filter_rows: head(3), as the position leaders of
\* recalc_and_show, in place of head(10).
filter_rows_head_3(pos) ==
  LET rows == rows_at(scored_avail(df, drafted_set, teams, roster_slots,
                                   bench_slots, my_counts, weights), pos)
  IN SubSeq(rows, 1, Min(3, Len(rows)))

\* posdf = scored[scored['position']==pos].head(10)
filter_rows(pos) ==
  LET rows == rows_at(scored_avail(df, drafted_set, teams, roster_slots,
                                   bench_slots, my_counts, weights), pos)
  IN SubSeq(rows, 1, Min(10, Len(rows)))

\* Variant of cmd_filter: the position is looked up among the keys of
\* my_counts, FLEX among them.
cmd_filter_accepts_flex(word) ==
  /\ running
  /\ line' = [cmd |-> "filter", arg |-> word]
  /\ prev' = session
  /\ LET pos == filter_position(word) IN
       out' = IF pos \notin CountKeys THEN MsgUnknownPosition
              ELSE IF filter_rows(pos) = << >> THEN MsgNoPlayersAt
              ELSE MsgFilterTable
  /\ UNCHANGED << config, session, running >>

\* "filter POS"
cmd_filter(word) ==
  /\ running
  /\ line' = [cmd |-> "filter", arg |-> word]
  /\ prev' = session
  /\ LET pos == filter_position(word) IN
       out' = IF pos \notin {BASE_POSITIONS[i] : i \in DOMAIN BASE_POSITIONS}
                THEN MsgUnknownPosition
              ELSE IF filter_rows(pos) = << >> THEN MsgNoPlayersAt
              ELSE MsgFilterTable
  /\ UNCHANGED << config, session, running >>

\* The words typed after "filter": the base positions, FLEX, a defence
\* alias, a lower-case position and a word that is none of these.
FilterInputs ==
  {BASE_POSITIONS[i] : i \in DOMAIN BASE_POSITIONS} \cup {"FLEX", "DEF", "te", "XX"}

\* "quit"
cmd_quit ==
  /\ running
  /\ line' = [cmd |-> "quit", arg |-> ""]
  /\ running' = FALSE
  /\ UNCHANGED << config, session, out, prev >>

Next ==
  \/ \E name \in InputNames : cmd_mine(name)
  \/ \E name \in InputNames : cmd_drafted(name)
  \/ cmd_undo
  \/ cmd_best
  \/ cmd_status
  \/ cmd_save("pool.csv")
  \/ \E word \in FilterInputs : cmd_filter(word)
  \/ cmd_quit

Spec == Init /\ [][Next]_vars

\* ------------------------------------------------------- session snapshot

\* write_state: the record saved for a session (history as ordered
\* {kind, name, position} records, my_counts as the keys it holds).
snapshot(t, rs, bs, history, mc) ==
  [teams |-> t, starters |-> rs, bench |-> bs,
   history |-> [i \in DOMAIN history |->
                  [kind |-> history[i][1], name |-> history[i][2],
                   position |-> history[i][3]]],
   my_counts |-> mc]

\* Variant of restore: drafted_set is not rebuilt and starts empty.
restore_empty_drafted_set(snap) ==
  [drafted |-> [i \in DOMAIN snap.history |->
                  << snap.history[i].kind, snap.history[i].name,
                     snap.history[i].position >>],
   drafted_set |-> {},
   my_counts |-> snap.my_counts]

\* read_state and the session rebuilt from it: drafted_set is derived from
\* the names of the restored history.
restore(snap) ==
  [drafted |-> [i \in DOMAIN snap.history |->
                  << snap.history[i].kind, snap.history[i].name,
                     snap.history[i].position >>],
   drafted_set |-> {snap.history[i].name : i \in DOMAIN snap.history},
   my_counts |-> snap.my_counts]

\* ------------------------------------------------------------------ claims

\* The names that appear in an event of the history.
HistoryNames == {drafted[i][2] : i \in DOMAIN drafted}

\* my_counts rebuilt from zero by the mine events of a history, in order.
RECURSIVE ReplayMine(_, _)
ReplayMine(history, rs) ==
  IF history = << >> THEN EmptyDict
  ELSE LET mc == ReplayMine(Front(history), rs)
           e == Last(history)
       IN IF e[1] = "mine" THEN increment_my_counts(mc, e[3], rs) ELSE mc

\* A mark command that was carried out prints the table or the end of draft.
Marked == {MsgBest, MsgDraftComplete}

\* C1: after any sequence of mark and undo commands, drafted_set is exactly
\* the set of names that appear in an event of the history.
C1_DraftedIsHistoryNames == drafted_set = HistoryNames

\* C2: my_counts equals the counts obtained from all zeros by applying the
\* starter, FLEX, bench rule to the mine events now in the history, in order.
C2_CountsReflectHistory ==
  \A k \in CountKeys :
    Get(my_counts, k) = Get(ReplayMine(drafted, roster_slots), k)

\* C3: restoring the snapshot of a reachable session gives back its history,
\* its my_counts and its drafted set.
C3_RoundTrip ==
  LET r == restore(snapshot(teams, roster_slots, bench_slots, drafted, my_counts))
  IN /\ r.drafted = drafted
     /\ r.my_counts = my_counts
     /\ r.drafted_set = drafted_set

\* C4: a mark command (league or mine) with a name that is not in the table
\* fails as unknown player, otherwise with a name in drafted_set fails as
\* already drafted; either failure leaves drafted, drafted_set and my_counts
\* as they were and the loop keeps reading commands.
C4_MarkFailures ==
  [][line'.cmd \in {"mine", "drafted"} =>
       IF line'.arg \notin all_names(df)
         THEN out' = MsgNameNotFound /\ UNCHANGED session /\ running'
       ELSE IF line'.arg \in drafted_set
         THEN out' = MsgAlreadyDrafted /\ UNCHANGED session /\ running'
       ELSE out' \in Marked]_vars

C4_Witness ==
  /\ line.cmd \in {"mine", "drafted"}
  /\ out = MsgAlreadyDrafted
  /\ line.arg \in drafted_set
  /\ drafted # << >>
  /\ running

\* C5: undo with an empty history fails with nothing to undo and leaves
\* drafted, drafted_set and my_counts as they were.
C5_UndoEmpty ==
  [][(line'.cmd = "undo" /\ drafted = << >>) =>
       out' = MsgNothingToUndo /\ UNCHANGED session]_vars

C5_Witness ==
  /\ line.cmd = "undo"
  /\ out = MsgNothingToUndo
  /\ drafted = << >>
  /\ drafted_set # {}

\* C6: undo of a last event (drafted, x) removes the event and removes x
\* from drafted_set, leaving my_counts; so a league mark of x that was
\* carried out and is undone at once gives back the session as it was
\* before the mark, with x available again.
C6_UndoLeagueDrafted ==
  [][(line'.cmd = "undo" /\ drafted # << >> /\ Last(drafted)[1] = "drafted") =>
       LET x == Last(drafted)[2] IN
         /\ drafted' = Front(drafted)
         /\ drafted_set' = drafted_set \ {x}
         /\ x \notin drafted_set'
         /\ my_counts' = my_counts
         /\ (line = [cmd |-> "drafted", arg |-> x] /\ out \in Marked) =>
              /\ << drafted', drafted_set', my_counts' >> = prev
              /\ x \in all_names(available(df, drafted_set'))]_vars

C6_Witness ==
  /\ line.cmd = "undo"
  /\ out = MsgUndidDrafted
  /\ prev[1] # << >>
  /\ Last(prev[1])[1] = "drafted"
  /\ Last(prev[1])[2] \notin drafted_set
  /\ drafted # << >>
  /\ \E k \in CountKeys : Get(my_counts, k) > 0

\* C7: undo of a last event of kind mine removes the event from the history
\* and changes neither my_counts nor whether its player is in drafted_set.
C7_UndoMine ==
  [][(line'.cmd = "undo" /\ drafted # << >> /\ Last(drafted)[1] = "mine") =>
       /\ drafted' = Front(drafted)
       /\ my_counts' = my_counts
       /\ drafted_set' = drafted_set
       /\ Last(drafted)[2] \in drafted_set']_vars

C7_Witness ==
  /\ line.cmd = "undo"
  /\ out = MsgUndoMine
  /\ Last(prev[1])[1] = "mine"
  /\ Last(prev[1])[2] \in drafted_set
  /\ Last(prev[1])[2] \notin HistoryNames
  /\ \E k \in CountKeys : Get(my_counts, k) > 0

\* C8: a league mark of a name of the table that is not in drafted_set
\* appends the one event (drafted, name, a position the table gives name),
\* adds name to drafted_set and leaves every count of my_counts, FLEX too.
C8_LeagueDraftedEffect ==
  [][(/\ line'.cmd = "drafted"
      /\ line'.arg \in all_names(df)
      /\ line'.arg \notin drafted_set) =>
       LET name == line'.arg IN
         /\ Len(drafted') = Len(drafted) + 1
         /\ SubSeq(drafted', 1, Len(drafted)) = drafted
         /\ Last(drafted')[1] = "drafted"
         /\ Last(drafted')[2] = name
         /\ \E i \in DOMAIN df :
              df[i].player = name /\ df[i].position = Last(drafted')[3]
         /\ drafted_set' = drafted_set \cup {name}
         /\ my_counts' = my_counts]_vars

C8_Witness ==
  /\ line.cmd = "drafted"
  /\ out \in Marked
  /\ drafted # << >>
  /\ Last(drafted) = << "drafted", line.arg, "WR" >>
  /\ Get(my_counts, "FLEX") > 0

\* C9: a mine mark of an available player at position P appends
\* (mine, name, P), adds name to drafted_set and adds one to exactly one
\* count: P's while it is below starters[P]; else FLEX's when P is RB, WR or
\* TE and FLEX's count is below the FLEX starters; else P's.
C9_MineEffect ==
  [][(/\ line'.cmd = "mine"
      /\ line'.arg \in all_names(df)
      /\ line'.arg \notin drafted_set) =>
       LET name == line'.arg
           P == Last(drafted')[3]
           slot == IF Get(my_counts, P) < Get(roster_slots, P) THEN P
                   ELSE IF /\ P \in {"RB", "WR", "TE"}
                           /\ Get(my_counts, "FLEX") < Get(roster_slots, "FLEX")
                        THEN "FLEX"
                   ELSE P
       IN /\ Len(drafted') = Len(drafted) + 1
          /\ SubSeq(drafted', 1, Len(drafted)) = drafted
          /\ Last(drafted')[1] = "mine"
          /\ Last(drafted')[2] = name
          /\ \E i \in DOMAIN df : df[i].player = name /\ df[i].position = P
          /\ drafted_set' = drafted_set \cup {name}
          /\ \A k \in CountKeys :
               Get(my_counts', k) = Get(my_counts, k) + (IF k = slot THEN 1 ELSE 0)]_vars

\* All three branches were taken: a starter RB, a WR on FLEX, a WR on the bench.
C9_Witness ==
  /\ line.cmd = "mine"
  /\ out \in Marked
  /\ Get(roster_slots, "RB") = 1
  /\ Get(roster_slots, "WR") = 0
  /\ Get(roster_slots, "FLEX") = 1
  /\ Get(my_counts, "RB") = 1
  /\ Get(my_counts, "FLEX") = 1
  /\ Get(my_counts, "WR") = 1

\* C10: in every reachable state and for every base position P, the need
\* classifier says need for P exactly when a mine mark of a player at P in
\* that state would fill a starter slot of P or a FLEX slot, and says bench or
\* blocked exactly when it would add to P's count beyond its starters.
C10_NeedMirrorsFill ==
  \A i \in DOMAIN BASE_POSITIONS :
    LET P == BASE_POSITIONS[i]
        state == compute_my_need_states(roster_slots, bench_slots, my_counts)[P]
        after == increment_my_counts(my_counts, P, roster_slots)
        starter == /\ Get(after, P) = Get(my_counts, P) + 1
                   /\ Get(my_counts, P) < Get(roster_slots, P)
        flex == Get(after, "FLEX") = Get(my_counts, "FLEX") + 1
        overflow == /\ Get(after, P) = Get(my_counts, P) + 1
                    /\ Get(my_counts, P) >= Get(roster_slots, P)
    IN /\ (state = "need") <=> (starter \/ flex)
       /\ (state \in {"bench", "blocked"}) <=> overflow

\* A position that is need through FLEX alone beside one that is not need,
\* after picks of mine.
C10_Witness ==
  LET states == compute_my_need_states(roster_slots, bench_slots, my_counts)
  IN /\ line.cmd = "mine"
     /\ out \in Marked
     /\ \E P \in flex_accept :
          /\ states[P] = "need"
          /\ Get(my_counts, P) >= Get(roster_slots, P)
          /\ Get(my_counts, P) > 0
     /\ \E Q \in DOMAIN states : states[Q] = "blocked"
     /\ \E R \in DOMAIN states : states[R] = "bench"

\* The replacement points of the pool that is available now.
Replacement ==
  compute_replacement_points(available(df, drafted_set), teams, roster_slots)

\* The positions of which the mark command just run took an available row.
TakenAt(P) ==
  /\ line'.cmd \in {"mine", "drafted"}
  /\ drafted_set' # drafted_set
  /\ \E i \in DOMAIN df : df[i].player = line'.arg /\ df[i].position = P

\* C11 as stated: whenever a mark command takes a player at P, the
\* replacement points of P on the new pool are at most those on the pool
\* before, the pick of the last player at P included.
C11_ReplacementNeverRises ==
  [][\A i \in DOMAIN BASE_POSITIONS :
       TakenAt(BASE_POSITIONS[i]) =>
         FLeq(Replacement'[BASE_POSITIONS[i]], Replacement[BASE_POSITIONS[i]])]_vars

\* C11 as amended: the replacement points of P do not rise when N =
\* teams * starters[P] <= 0, or when a player at P is left and either the
\* pick took the best available player at P or at least N players at P are
\* left after it.
C11_ReplacementNotRaisedByBest ==
  [][\A i \in DOMAIN BASE_POSITIONS :
       LET P == BASE_POSITIONS[i]
           N == teams * Get(roster_slots, P)
           before == rows_at(available(df, drafted_set), P)
           after == rows_at(available(df, drafted_set'), P)
           best == \A j \in DOMAIN before, k \in DOMAIN before :
                     before[j].player = line'.arg =>
                       before[j].proj_points >= before[k].proj_points
       IN (/\ TakenAt(P)
           /\ \/ N <= 0
              \/ Len(after) >= 1 /\ (best \/ Len(after) >= N)) =>
            FLeq(Replacement'[P], Replacement[P])]_vars

\* A pick after which the replacement points of a position are lower.
C11_Witness ==
  /\ line.cmd \in {"mine", "drafted"}
  /\ out \in Marked
  /\ \E i \in DOMAIN BASE_POSITIONS :
       LET P == BASE_POSITIONS[i]
           was == compute_replacement_points(available(df, prev[2]), teams,
                                             roster_slots)[P]
       IN was.kind = "fin" /\ FLess(Replacement[P], was)

\* The need states of the session now.
NeedStates == compute_my_need_states(roster_slots, bench_slots, my_counts)

\* need, bench, blocked in their order.
Rank(state) == CASE state = "need" -> 0 [] state = "bench" -> 1 [] OTHER -> 2

\* C12: over a mark command (league or mine) the need state of a base
\* position stays or moves forward in the order need, bench, blocked.
C12_NeedStateForward ==
  [][line'.cmd \in {"mine", "drafted"} =>
       \A i \in DOMAIN BASE_POSITIONS :
         Rank(NeedStates'[BASE_POSITIONS[i]]) >= Rank(NeedStates[BASE_POSITIONS[i]])]_vars

\* A pick of mine that moved a position from bench to blocked, after an
\* earlier one had moved it from need to bench.
C12_Witness ==
  /\ line.cmd = "mine"
  /\ out \in Marked
  /\ \E i \in DOMAIN BASE_POSITIONS :
       LET P == BASE_POSITIONS[i] IN
         /\ compute_my_need_states(roster_slots, bench_slots, prev[3])[P] = "bench"
         /\ NeedStates[P] = "blocked"
         /\ compute_my_need_states(roster_slots, bench_slots, EmptyDict)[P] = "need"

\* The table a query shows now.
Scored ==
  scored_best(df, drafted_set, teams, roster_slots, bench_slots, my_counts, weights)

\* The table the command read last was given: scored from the session as it
\* was when the command was read.
Shown ==
  scored_best(df, prev[2], teams, roster_slots, bench_slots, prev[3], weights)

BasePositions == {BASE_POSITIONS[i] : i \in DOMAIN BASE_POSITIONS}

\* C14: best, status, filter and save leave drafted, drafted_set and
\* my_counts (its keys too) as they were; a command that changes any of them
\* is a mark or an undo.
C14_ReadOnlyCommands ==
  [][/\ line'.cmd \in {"best", "status", "filter", "save"} => UNCHANGED session
     /\ session' # session => line'.cmd \in {"mine", "drafted", "undo"}]_vars

C14_Witness ==
  /\ line.cmd = "status"
  /\ out = MsgStatus
  /\ drafted # << >>
  /\ prev = session
  /\ \E k \in CountKeys : Get(my_counts, k) > 0
  /\ \E k \in CountKeys : k \notin DOMAIN my_counts

\* C15 as stated: whenever no player is available (all are drafted, or the
\* table itself is empty) and quit was not typed, the session still reads
\* commands.
C15_EmptyPoolKeepsSession ==
  (available(df, drafted_set) = << >> /\ line.cmd # "quit") => running

\* C15 as amended: when all players of a table that is not empty are
\* drafted, best prints the end of the draft and no table, filter prints that
\* no players are left, and the session still reads commands, undo among them.
C15_AllDraftedKeepsSession ==
  (df # << >> /\ available(df, drafted_set) = << >> /\ line.cmd # "quit") =>
    /\ running
    /\ ENABLED cmd_undo
    /\ line.cmd = "best" => out = MsgDraftComplete
    /\ (line.cmd = "filter" /\ filter_position(line.arg) \in BasePositions) =>
         out = MsgNoPlayersAt

C15_Witness ==
  /\ df # << >>
  /\ available(df, drafted_set) = << >>
  /\ line.cmd = "best"
  /\ out = MsgDraftComplete
  /\ running
  /\ drafted # << >>

\* ------------------------------------------------ sessions with picks made

\* The number of picks made before the queries.
MaxPicks == 2

\* Orders in which up to MaxPicks different names of a table are picked.
PickOrders(table) ==
  UNION { {s \in [1..n -> all_names(table)] :
             \A i, j \in 1..n : s[i] = s[j] => i = j} : n \in 0..MaxPicks }

\* The history after the names of an order were marked with the given
\* commands: one (act, name, pos) per mark, as the mine and league branches
\* append them.
HistoryOf(table, names, acts) ==
  [i \in DOMAIN names |-> << acts[i], names[i], position_of(table, names[i]) >>]

\* A session on a whole table after marks and no undo, as the next command
\* is about to be read.
InitQuery ==
  /\ \E c \in DOMAIN Catalogues : df = Catalogues[c]
  /\ \E c \in Configs :
       /\ teams = c.teams
       /\ roster_slots = c.roster
       /\ bench_slots = c.bench
       /\ weights = c.weights
  /\ \E names \in PickOrders(df) :
       \E acts \in [DOMAIN names -> {"mine", "drafted"}] :
         /\ drafted = HistoryOf(df, names, acts)
         /\ drafted_set = {names[i] : i \in DOMAIN names}
         /\ my_counts = ReplayMine(HistoryOf(df, names, acts), roster_slots)
  /\ line = [cmd |-> "", arg |-> ""]
  /\ out = recalc_and_show(df, drafted_set)
  /\ running = TRUE
  /\ prev = session

\* The commands that show or save the scored table, and quit.
NextQuery ==
  \/ cmd_best
  \/ cmd_status
  \/ cmd_save("pool.csv")
  \/ \E word \in FilterInputs : cmd_filter(word)
  \/ cmd_quit

QuerySpec == InitQuery /\ [][NextQuery]_vars

\* C16: with the default weights, of two rows of the scored table with the
\* same VORP the one whose position is earlier in the order need, bench,
\* blocked has an adj_score at least that of the other.
C16_NeedOutranksBenchOutranksBlocked ==
  weights = DefaultWeights =>
    \A i, j \in DOMAIN Scored :
      (Scored[i].vorp = Scored[j].vorp
         /\ Rank(Scored[i].need_state) < Rank(Scored[j].need_state)) =>
        FLeq(Scored[j].adj_score, Scored[i].adj_score)

\* C17: in every state in which a command is accepted, all configured
\* starter, bench and FLEX counts are >= 0.
C17_CountsNonNegative ==
  running =>
    /\ \A k \in DOMAIN roster_slots : roster_slots[k] >= 0
    /\ \A k \in DOMAIN bench_slots : bench_slots[k] >= 0

\* C18 as stated: filter with a position outside QB, RB, WR, TE, K, DST
\* (in either case of letters) prints unknown position and leaves drafted,
\* drafted_set and my_counts.
C18_FilterOutsideBaseSet ==
  [][(line'.cmd = "filter" /\ upper(line'.arg) \notin BasePositions) =>
       out' = MsgUnknownPosition /\ UNCHANGED session]_vars

\* C18 as amended: filter prints unknown position, and no table, exactly for
\* a word that is outside the base positions after it is upper-cased and a
\* defence alias is taken as DST (FLEX is such a word); the session is left
\* as it was.
C18_FilterUnknownPosition ==
  [][line'.cmd = "filter" =>
       LET word == line'.arg
           known == \/ word \in BasePositions
                    \/ word \in {"DEF", "D/ST", "D-ST", "TEAM DEFENSE", "TEAMDEF",
                                 "TEAM D", "DEFENSE"}
                    \/ word = "te"
       IN /\ UNCHANGED session
          /\ (out' = MsgUnknownPosition) <=> ~known
          /\ word = "FLEX" => out' = MsgUnknownPosition]_vars

C18_Witness ==
  /\ line = [cmd |-> "filter", arg |-> "FLEX"]
  /\ out = MsgUnknownPosition
  /\ drafted # << >>
  /\ prev = session

C20_BestIsReplacement ==
  \A P \in BasePositions :
    LET pool == sort_by_points(rows_at(available(df, drafted_set), P))
        rows == rows_at(Scored, P)
    IN (teams = 1 /\ Get(roster_slots, P) = 1 /\ pool # << >>) =>
         /\ \A j \in DOMAIN pool : pool[1].proj_points >= pool[j].proj_points
         /\ Replacement[P] = Fin(pool[1].proj_points)
         /\ Len(rows) = Len(pool)
         /\ \A j \in DOMAIN rows :
              /\ rows[j].player = pool[1].player => rows[j].vorp = Fin(0)
              /\ FLeq(rows[j].vorp, Fin(0))

C20_Witness ==
  /\ teams = 1
  /\ Get(roster_slots, "WR") = 1
  /\ drafted # << >>
  /\ Len(rows_at(available(df, drafted_set), "WR")) >= 2
  /\ \E j \in DOMAIN Scored :
       Scored[j].position = "WR" /\ FLess(Scored[j].vorp, Fin(0))

\* The rows of the pool still available at a position, in table order.
AvailableAt(P) == rows_at(available(df, drafted_set), P)

\* v is the k-th largest proj_points of the rows: fewer than k rows are
\* above it and at least k rows are at or above it.
KthLargest(rows, k, v) ==
  /\ \E i \in DOMAIN rows : rows[i].proj_points = v
  /\ Cardinality({i \in DOMAIN rows : rows[i].proj_points > v}) < k
  /\ Cardinality({i \in DOMAIN rows : rows[i].proj_points >= v}) >= k

\* C21: for a base position P with N = teams x starters[P] > 0 and a player
\* available at P, the replacement of P, computed from the pool minus the
\* drafted names, is the N-th largest proj_points of the players available at
\* P, or the smallest when fewer than N are left.
C21_ReplacementIsNthBest ==
  \A P \in BasePositions :
    LET N == teams * Get(roster_slots, P)
        count == Len(AvailableAt(P))
    IN (N > 0 /\ count > 0) =>
         /\ Replacement[P].kind = "fin"
         /\ KthLargest(AvailableAt(P), Min(N, count), Replacement[P].val)

\* Picks were made, one of them at a position that now has several players
\* left but fewer than N: its replacement is the smallest of their points.
C21_Witness ==
  \E P \in BasePositions :
    /\ \E i \in DOMAIN drafted : drafted[i][3] = P
    /\ Len(AvailableAt(P)) >= 2
    /\ teams * Get(roster_slots, P) > Len(AvailableAt(P))
    /\ \E i \in DOMAIN AvailableAt(P) :
         AvailableAt(P)[i].proj_points > Replacement[P].val

\* C22: the replacement of a base position P is +inf exactly when
\* teams x starters[P] <= 0 or no player is available at P; a scored row at a
\* position whose replacement is +inf has a VORP below 0 and below the VORP
\* of every row at a position whose replacement is finite.
C22_InfiniteReplacement ==
  /\ \A P \in BasePositions :
       (Replacement[P] = PosInf) <=>
         (teams * Get(roster_slots, P) <= 0 \/ AvailableAt(P) = << >>)
  /\ \A i \in DOMAIN Scored :
       Replacement[Scored[i].position] = PosInf =>
         /\ FLess(Scored[i].vorp, Fin(0))
         /\ \A j \in DOMAIN Scored :
              Replacement[Scored[j].position].kind = "fin" =>
                FLess(Scored[i].vorp, Scored[j].vorp)

\* A position nobody starts has a player left, a started position was
\* emptied by the picks, and a third has a finite replacement.
C22_Witness ==
  /\ \E i \in DOMAIN Scored :
       /\ teams * Get(roster_slots, Scored[i].position) <= 0
       /\ Scored[i].vorp = NegInf
  /\ \E P \in BasePositions :
       /\ teams * Get(roster_slots, P) > 0
       /\ rows_at(df, P) # << >>
       /\ AvailableAt(P) = << >>
       /\ Replacement[P] = PosInf
  /\ \E j \in DOMAIN Scored : Scored[j].vorp.kind = "fin"

\* C23: for the configuration and the my_counts of every session, each base
\* position P is need when my_counts[P] < starters[P], or when P is RB, WR or
\* TE and a FLEX slot is free; otherwise bench when
\* my_counts[P] - starters[P] < bench[P]; otherwise blocked.  With starters
\* RB:1 and WR:1, no bench, no FLEX and my_counts RB:1, RB is blocked and WR
\* is need.
C23_NeedClassifier ==
  /\ \A P \in BasePositions :
       LET short == Get(my_counts, P) < Get(roster_slots, P)
           flex == P \in {"RB", "WR", "TE"}
                     /\ Get(roster_slots, "FLEX") - Get(my_counts, "FLEX") > 0
           room == Get(my_counts, P) - Get(roster_slots, P) < Get(bench_slots, P)
       IN /\ (NeedStates[P] = "need") <=> (short \/ flex)
          /\ (NeedStates[P] = "bench") <=> (~short /\ ~flex /\ room)
          /\ (NeedStates[P] = "blocked") <=> (~short /\ ~flex /\ ~room)
  /\ LET ns == compute_my_need_states(Dict(<<"RB", "WR">>, <<1, 1>>), EmptyDict,
                                      Dict(<<"RB">>, <<1>>))
     IN ns["RB"] = "blocked" /\ ns["WR"] = "need"

\* The session of the example: starters RB:1 and WR:1, no bench, no FLEX, one
\* RB of mine.
C23_Witness ==
  /\ roster_slots = Dict(<<"RB", "WR">>, <<1, 1>>)
  /\ bench_slots = EmptyDict
  /\ my_counts = Dict(<<"RB">>, <<1>>)
  /\ line.cmd = "mine"
  /\ NeedStates["RB"] = "blocked"
  /\ NeedStates["WR"] = "need"

\* Key a = key b or key a > key b on (adj_score, vorp, proj_points), the
\* floats compared as floats.
KeyNotBelow(a, b) ==
  \/ FLess(b.adj_score, a.adj_score)
  \/ /\ FLeq(a.adj_score, b.adj_score) /\ FLeq(b.adj_score, a.adj_score)
     /\ \/ FLess(b.vorp, a.vorp)
        \/ /\ FLeq(a.vorp, b.vorp) /\ FLeq(b.vorp, a.vorp)
           /\ a.proj_points >= b.proj_points

\* C24: the scored table has each available row exactly once, with
\* vorp = proj_points - replacement[position] and
\* adj_score = vorp x weights[need_state[position]], and the key
\* (adj_score, vorp, proj_points) does not increase from a row to the next;
\* for A/RB/10, B/RB/20, C/WR/15, D/WR/25 with teams 1, starters RB:1 and
\* WR:1 and both positions need, the first two rows are D then B.
C24_ScoredTable ==
  LET avail == available(df, drafted_set) IN
    /\ Len(Scored) = Len(avail)
    /\ \A i \in DOMAIN avail :
         Cardinality({j \in DOMAIN Scored :
                        /\ Scored[j].player = avail[i].player
                        /\ Scored[j].position = avail[i].position
                        /\ Scored[j].proj_points = avail[i].proj_points}) = 1
    /\ \A j \in DOMAIN Scored :
         /\ Scored[j].need_state = NeedStates[Scored[j].position]
         /\ Scored[j].vorp = FSub(Scored[j].proj_points,
                                  Replacement[Scored[j].position])
         /\ Scored[j].adj_score = FMul(Scored[j].vorp, weights[Scored[j].need_state])
    /\ \A j \in DOMAIN Scored :
         j + 1 \in DOMAIN Scored => KeyNotBelow(Scored[j], Scored[j + 1])
    /\ (/\ all_names(avail) = {"A", "B", "C", "D"}
        /\ teams = 1
        /\ roster_slots = Dict(<<"RB", "WR">>, <<1, 1>>)
        /\ NeedStates["RB"] = "need" /\ NeedStates["WR"] = "need") =>
         (Scored[1].player = "D" /\ Scored[2].player = "B")

\* ------------------------------------------- sessions on a deep position

\* A table with more players at one position than the filter branch shows:
\* eleven RB and one WR, sorted by proj_points descending as load_data
\* leaves it.
DeepTable ==
  << Row("R1", "RB", 30), Row("R2", "RB", 29), Row("R3", "RB", 28),
     Row("R4", "RB", 27), Row("R5", "RB", 26), Row("W1", "WR", 25),
     Row("R6", "RB", 24), Row("R7", "RB", 23), Row("R8", "RB", 22),
     Row("R9", "RB", 21), Row("R10", "RB", 20), Row("R11", "RB", 19) >>

\* The league has taken the first k players of the table, k up to MaxPicks,
\* and the next command is about to be read.
InitDeep ==
  /\ df = DeepTable
  /\ \E c \in Configs :
       /\ teams = c.teams
       /\ roster_slots = c.roster
       /\ bench_slots = c.bench
       /\ weights = c.weights
  /\ \E k \in 0..MaxPicks :
       /\ drafted = [i \in 1..k |-> << "drafted", df[i].player, df[i].position >>]
       /\ drafted_set = {df[i].player : i \in 1..k}
  /\ my_counts = EmptyDict
  /\ line = [cmd |-> "", arg |-> ""]
  /\ out = recalc_and_show(df, drafted_set)
  /\ running = TRUE
  /\ prev = session

DeepSpec == InitDeep /\ [][NextQuery]_vars

\* C25 as stated: for every base position P, filter P gives exactly the rows
\* at P of the table a query scores, with the same values and in the same
\* order.
C25_FilterIsQueryAtPosition ==
  \A P \in BasePositions : filter_rows(P) = rows_at(Scored, P)

\* C25 as amended: for every base position P, filter P gives the first ten
\* of the rows at P of the table a query scores (all of them when there are
\* ten or fewer), with the same values and in the same order.
C25_FilterIsFirstTenAtPosition ==
  \A P \in BasePositions :
    LET rows == rows_at(Scored, P)
    IN /\ Len(filter_rows(P)) = Min(10, Len(rows))
       /\ \A i \in DOMAIN filter_rows(P) : filter_rows(P)[i] = rows[i]

\* filter RB has printed a table while more than ten RB were available.
C25_Witness ==
  /\ line = [cmd |-> "filter", arg |-> "RB"]
  /\ out = MsgFilterTable
  /\ Len(rows_at(Scored, "RB")) > 10
  /\ Len(filter_rows("RB")) = 10

\* C26: the history changes at its tail only.  A mark command that is
\* carried out appends one event and leaves the earlier ones; undo on a
\* history that is not empty removes the last event and leaves the others;
\* a command that fails (name not found, already drafted, nothing to undo)
\* and best, status, save, filter and quit leave the history as it was.
C26_HistoryChangesAtTail ==
  [][/\ (line'.cmd \in {"mine", "drafted"} /\ out' \in Marked) =>
          /\ Len(drafted') = Len(drafted) + 1
          /\ Front(drafted') = drafted
          /\ Last(drafted') =
               << line'.cmd, line'.arg, position_of(df, line'.arg) >>
     /\ (line'.cmd = "undo" /\ out' # MsgNothingToUndo) =>
          /\ drafted # << >>
          /\ drafted' = Front(drafted)
     /\ (\/ out' \in {MsgNameNotFound, MsgAlreadyDrafted, MsgNothingToUndo}
         \/ line'.cmd \in {"best", "status", "save", "filter", "quit"}) =>
          drafted' = drafted]_vars

\* undo has taken back the last of at least two events, a mark of the other
\* kind than the one before it, which is now the last.
C26_Witness ==
  /\ line.cmd = "undo"
  /\ out \in {MsgUndidDrafted, MsgUndoMine}
  /\ drafted # << >>
  /\ Len(prev[1]) = Len(drafted) + 1
  /\ Front(prev[1]) = drafted
  /\ Last(prev[1])[1] # Last(drafted)[1]

\* C27: every name in an event of the history is in drafted_set and is a
\* name of the players table, and no name is in two events of the history.
C27_HistoryNamesDraftedOnce ==
  /\ HistoryNames \subseteq drafted_set
  /\ HistoryNames \subseteq all_names(df)
  /\ \A i, j \in DOMAIN drafted : drafted[i][2] = drafted[j][2] => i = j

\* A history of two events after a pick of mine was taken back: the drafted
\* set holds a name the history does not.
C27_Witness ==
  /\ Len(drafted) >= 2
  /\ drafted_set # HistoryNames
  /\ \E i \in DOMAIN drafted : drafted[i][1] = "mine"

\* The names of the players tables.
CatalogueNames == UNION {all_names(Catalogues[c]) : c \in DOMAIN Catalogues}

\* The mine command for a name was carried out by the command read last.
MineDone(name) == line = [cmd |-> "mine", arg |-> name] /\ out \in Marked

\* A name stays out of the pool: it is in drafted_set, no row of the scored
\* table or of a filtered table has it, and a mark command read for it while
\* it was in drafted_set has printed already drafted and changed nothing.
KeptOut(name) ==
  /\ name \in drafted_set
  /\ LET rows == Scored IN \A j \in DOMAIN rows : rows[j].player # name
  /\ \A P \in BasePositions :
       LET rows == filter_rows(P) IN \A j \in DOMAIN rows : rows[j].player # name
  /\ (line.cmd \in {"mine", "drafted"} /\ line.arg = name /\ name \in prev[2]) =>
       (out = MsgAlreadyDrafted /\ prev = session)

\* A name is held by a pick of mine: it is in drafted_set and no league event
\* of the history has it, so that no undo takes it out.
MineKept(name) ==
  /\ name \in drafted_set
  /\ \A i \in DOMAIN drafted : ~(drafted[i][1] = "drafted" /\ drafted[i][2] = name)

\* C28: once a mine command for a name was carried out, in every later
\* state, whatever commands follow (undo of that event among them), the
\* name is in drafted_set, is in no table a query or filter shows, and every
\* mark command for it fails with already drafted.  Step by step: the mine
\* command leaves the name held, every command leaves a held name held, and
\* a held name is kept out of the pool.
C28_MineIsForGood ==
  /\ [](\A name \in CatalogueNames : MineKept(name) => KeptOut(name))
  /\ [][\A name \in CatalogueNames :
          (MineDone(name)' \/ MineKept(name)) => MineKept(name)']_vars

\* The pick of mine was taken back by undo and a league mark of the same
\* name was then refused.
C28_Witness ==
  /\ line.cmd = "drafted"
  /\ out = MsgAlreadyDrafted
  /\ line.arg \in drafted_set
  /\ line.arg \notin HistoryNames
  /\ drafted # << >>

\* C29: when no roster count is negative, my_counts[FLEX] is at most the
\* FLEX starter count, and my_counts[P] of RB, WR or TE is above starters[P]
\* only when my_counts[FLEX] equals the FLEX starter count.
C29_FlexBeforeBench ==
  (\A k \in DOMAIN roster_slots : roster_slots[k] >= 0) =>
    /\ Get(my_counts, "FLEX") <= Get(roster_slots, "FLEX")
    /\ \A P \in flex_accept :
         Get(my_counts, P) > Get(roster_slots, P) =>
           Get(my_counts, "FLEX") = Get(roster_slots, "FLEX")

\* Picks of mine have filled a starter slot, then the FLEX slot, then a
\* slot beyond the starters of a FLEX position.
C29_Witness ==
  /\ line.cmd = "mine"
  /\ out \in Marked
  /\ Get(roster_slots, "FLEX") > 0
  /\ Get(my_counts, "FLEX") = Get(roster_slots, "FLEX")
  /\ Get(prev[3], "FLEX") = Get(roster_slots, "FLEX")
  /\ \E P \in flex_accept :
       /\ Get(my_counts, P) > Get(roster_slots, P)
       /\ Get(prev[3], P) = Get(roster_slots, P)
  /\ \A k \in DOMAIN roster_slots : roster_slots[k] >= 0

\* The sum of the counters a my_counts holds, the positions and FLEX.
RECURSIVE SumOver(_, _)
SumOver(mc, keys) ==
  IF keys = {} THEN 0
  ELSE LET k == CHOOSE x \in keys : TRUE
       IN mc[k] + SumOver(mc, keys \ {k})

CountSum(mc) == SumOver(mc, DOMAIN mc)

\* C30: the counters of my_counts start at 0; over every command, undo
\* included, no counter goes down, and their sum goes up by one when a mine
\* command is carried out and stays as it was otherwise: the sum is the
\* number of mine commands carried out so far, taken back or not.
C30_CountsOnlyGrow ==
  /\ CountSum(my_counts) = 0
  /\ [][/\ \A k \in CountKeys : Get(my_counts', k) >= Get(my_counts, k)
        /\ DOMAIN my_counts' \subseteq CountKeys
        /\ CountSum(my_counts') =
             CountSum(my_counts)
               + (IF line'.cmd = "mine" /\ out' \in Marked THEN 1 ELSE 0)]_vars

\* Two picks of mine were carried out and one was taken back: the counters
\* sum to two and the history has one mine event.
C30_Witness ==
  /\ line.cmd = "undo"
  /\ out = MsgUndoMine
  /\ CountSum(my_counts) = 2
  /\ Cardinality({i \in DOMAIN drafted : drafted[i][1] = "mine"}) = 1
  /\ my_counts = prev[3]

====
